---- MODULE Spec2Model ----
(***************************************************************************)
(* Model of the over-production report engine (generate_report.py) and of  *)
(* the "Generate Report" handler of app.py that calls it.                  *)
(*                                                                         *)
(* Representation choices                                                  *)
(*  - A string is a sequence of tokens, so that str.startswith and         *)
(*    str.replace are computed on the text: "**Thrown" is                  *)
(*    <<"*", "*", "Thrown">>.  A null (NaN) label is the value NA.         *)
(*  - costprice is an integer number of mills (1/1000 dollar), so that     *)
(*    round(2) has digits to round away.  total_cost is in mills, a        *)
(*    rounded Cost in cents, a rounded Percentage in hundredths.           *)
(*  - round(2) is numpy's round-half-to-even, computed on exact rationals; *)
(*    the binary representation error of Python floats is not modelled.    *)
(*  - A nullable number (a cell of a frame) is a record                    *)
(*    [kind, val, text]: kind "num" (val), "nan", "inf" or "str" (text).   *)
(*  - The label column of an input table has pandas dtype object (strings  *)
(*    and nulls).  A quantity may be negative (the CSV is not validated).  *)
(*  - str.replace("**", "") replaces the literal text (pandas 2, where     *)
(*    regex=False is the default).                                         *)
(***************************************************************************)
EXTENDS Integers, Sequences, FiniteSets, TLC

VARIABLES pc, uploaded, datasets, pivots, executive_summary, worksheet, writers,
          current_row, error

vars == <<pc, uploaded, datasets, pivots, executive_summary, worksheet, writers,
          current_row, error>>

(***************************************************************************)
(* Bounds of the model                                                     *)
(***************************************************************************)
\* rows of the table handed to the aggregator in SpecPivot
MaxRows == 2
\* largest served_prtncount of a record
MaxQty == 2
\* rows of a free table of the three-facility specification Spec
MaxReportRows == 1

(***************************************************************************)
(* Strings and cells                                                       *)
(***************************************************************************)
Marker == <<"*", "*">>

Marked(name) == Marker \o <<name>>

NA == <<"<NA>">>

StrStartsWith(s, prefix) ==
    /\ Len(s) >= Len(prefix)
    /\ SubSeq(s, 1, Len(prefix)) = prefix

RECURSIVE StrReplace(_, _, _)
StrReplace(s, old, new) ==
    IF s = <<>> THEN <<>>
    ELSE IF StrStartsWith(s, old)
         THEN new \o StrReplace(SubSeq(s, Len(old) + 1, Len(s)), old, new)
         ELSE <<Head(s)>> \o StrReplace(Tail(s), old, new)

Num(n) == [kind |-> "num", val |-> n, text |-> <<>>]

NaN == [kind |-> "nan", val |-> 0, text |-> <<>>]

Inf == [kind |-> "inf", val |-> 1, text |-> <<>>]

NegInf == [kind |-> "inf", val |-> -1, text |-> <<>>]

Str(s) == [kind |-> "str", val |-> 0, text |-> <<s>>]

IsNull(c) == c.kind = "nan"

\* numpy round: n / d rounded to an integer, ties to the even neighbour (d > 0;
\* \div rounds down, so the remainder r is in 0..d-1 for a negative n too)
RoundHalfEven(n, d) ==
    LET q == n \div d
        r == n % d
    IN  IF 2 * r < d THEN q
        ELSE IF 2 * r > d THEN q + 1
        ELSE IF q % 2 = 0 THEN q ELSE q + 1

\* DataFrame.round(2) of a money figure: mills to cents
Round2(mills) == RoundHalfEven(mills, 10)

\* float division of two rounded money cells, then round(..., 2): hundredths
Divide(c, t) ==
    IF IsNull(c) \/ IsNull(t) THEN NaN
    ELSE IF t.val = 0
         THEN (IF c.val = 0 THEN NaN ELSE IF c.val > 0 THEN Inf ELSE NegInf)
    ELSE IF t.val > 0 THEN Num(RoundHalfEven(100 * c.val, t.val))
    ELSE Num(RoundHalfEven(0 - 100 * c.val, 0 - t.val))

\* a sum that skips nulls (Series.add(fill_value=0), sum(skipna=True))
AddSkipNa(a, b) ==
    IF IsNull(a) /\ IsNull(b) THEN NaN
    ELSE Num((IF IsNull(a) THEN 0 ELSE a.val) + (IF IsNull(b) THEN 0 ELSE b.val))

\* float addition of two cells: NaN propagates
Add(a, b) == IF IsNull(a) \/ IsNull(b) THEN NaN ELSE Num(a.val + b.val)

(***************************************************************************)
(* create_report_pivot_table                                               *)
(***************************************************************************)
\* every label of the model in Python's string order: the order pivot_table
\* gives its index
SortedLabels ==
    << Marked("Donated"), Marked("Reused"), Marked("Spoilage"),
       Marked("Thrown"), Marked("Waste"), <<"Reused">> >>

desired_order == << <<"Reused">>, <<"Waste">>, <<"Donated">>, <<"Over Production">> >>

HasLabel(r) == r.srvcrsname # NA

\* line 9: df.dropna(subset=['srvcrsname'], inplace=True)
dropna(rows) == SelectSeq(rows, HasLabel)

\* line 10: df['total_cost'] = df['served_prtncount'] * df['costprice']
WithTotalCost(r) ==
    [c \in (DOMAIN r) \cup {"total_cost"} |->
        IF c = "total_cost" THEN r.served_prtncount * r.costprice ELSE r[c]]

total_cost(rows) == [i \in 1..Len(rows) |-> WithTotalCost(rows[i])]

IsOverProduction(r) == StrStartsWith(r.srvcrsname, Marker)

\* the marker filter left out
over_production_df_unfiltered(rows) == rows

\* line 13: df[df['srvcrsname'].str.startswith("**")]
over_production_df(rows) == SelectSeq(rows, IsOverProduction)

RECURSIVE SumWhere(_, _)
SumWhere(rows, lbl) ==
    IF rows = <<>> THEN 0
    ELSE (IF Head(rows).srvcrsname = lbl THEN Head(rows).total_cost ELSE 0)
         + SumWhere(Tail(rows), lbl)

\* a sum that misses the last sub-category
RECURSIVE SumColumnButLast(_)
SumColumnButLast(p) ==
    IF Len(p) <= 1 THEN 0 ELSE Head(p).total_cost + SumColumnButLast(Tail(p))

RECURSIVE SumColumn(_)
SumColumn(p) == IF p = <<>> THEN 0 ELSE Head(p).total_cost + SumColumn(Tail(p))

\* line 14: pivot_table(index='srvcrsname', values='total_cost', aggfunc='sum')
pivot_table(rows) ==
    LET Present(lbl) == \E i \in 1..Len(rows) : rows[i].srvcrsname = lbl
        index == SelectSeq(SortedLabels, Present)
    IN  [i \in 1..Len(index) |->
            [srvcrsname |-> index[i], total_cost |-> SumWhere(rows, index[i])]]

\* line 16: pivot.loc['Over Production'] = pivot.sum()
WithOverProduction(p) ==
    Append(p, [srvcrsname |-> <<"Over Production">>, total_cost |-> SumColumn(p)])

\* line 17: pivot.index = pivot.index.str.replace("**", "")
StripMarker(p) ==
    [i \in 1..Len(p) |->
        [srvcrsname |-> StrReplace(p[i].srvcrsname, Marker, <<>>),
         total_cost |-> p[i].total_cost]]

\* line 18: pivot_df = pivot.round(2)
RoundCosts(p) ==
    [i \in 1..Len(p) |->
        [srvcrsname |-> p[i].srvcrsname, total_cost |-> Num(Round2(p[i].total_cost))]]

pivot_over_production_df(rows) ==
    RoundCosts(StripMarker(WithOverProduction(pivot_table(over_production_df(rows)))))

LabelsOf(p) == [i \in 1..Len(p) |-> p[i].srvcrsname]

IsUnique(s) == \A i, j \in 1..Len(s) : s[i] = s[j] => i = j

Count(s, x) == Cardinality({i \in 1..Len(s) : s[i] = x})

\* pivot_df.loc['Over Production']['total_cost'] (line 24), the index holding
\* 'Over Production' once
OverProductionTotal(p) ==
    p[CHOOSE i \in 1..Len(p) : p[i].srvcrsname = <<"Over Production">>].total_cost

\* the denominator taken by position (row 0) instead of by name
PercentageOfFirstRow(p) ==
    [i \in 1..Len(p) |->
        [name |-> p[i].srvcrsname,
         Cost |-> p[i].total_cost,
         Percentage |-> Divide(p[i].total_cost, p[1].total_cost)]]

\* line 24: pivot_df['Percentage'] = round(pivot_df['total_cost'] / total, 2);
\* lines 27-30: the columns Cost and Percentage, the index as a column
Percentage(p) ==
    [i \in 1..Len(p) |->
        [name |-> p[i].srvcrsname,
         Cost |-> p[i].total_cost,
         Percentage |-> Divide(p[i].total_cost, OverProductionTotal(p))]]

\* line 33: pivot_df[label].replace({"Thrown": "Waste"}): whole values only
ReplaceThrown(name) == IF name = <<"Thrown">> THEN <<"Waste">> ELSE name

replace(p) ==
    [i \in 1..Len(p) |->
        [name |-> ReplaceThrown(p[i].name), Cost |-> p[i].Cost,
         Percentage |-> p[i].Percentage]]

Names(p) == [i \in 1..Len(p) |-> p[i].name]

\* DataFrame.reindex raises ValueError("cannot reindex on an axis with duplicate
\* labels") when the index is not unique
ReindexRaises(p) == ~IsUnique(Names(p))

\* lines 35-38: set_index(label).reindex(order).reset_index(), the index unique
reindex(p, order) ==
    [k \in 1..Len(order) |->
        IF \E i \in 1..Len(p) : p[i].name = order[k]
        THEN p[CHOOSE i \in 1..Len(p) : p[i].name = order[k]]
        ELSE [name |-> order[k], Cost |-> NaN, Percentage |-> NaN]]

NoPivot == [columns |-> <<>>, rows |-> <<>>]

\* lines 7-40.  The result: the exception raised ("none" when it returns), the
\* caller's table as the call leaves it, and the frame returned.
create_report_pivot_table(df, label) ==
    LET rows == total_cost(dropna(df.rows))
        mutated == [columns |-> df.columns \cup {"total_cost"}, rows |-> rows]
        pivot_df == pivot_over_production_df(rows)
    IN  IF Count(LabelsOf(pivot_df), <<"Over Production">>) # 1
        THEN [error |-> "ValueError", df |-> mutated, pivot |-> NoPivot]
        ELSE LET renamed == replace(Percentage(pivot_df))
             IN  IF ReindexRaises(renamed)
                 THEN [error |-> "ValueError", df |-> mutated, pivot |-> NoPivot]
                 ELSE [error |-> "none", df |-> mutated,
                       pivot |-> [columns |-> <<label, "Cost", "Percentage">>,
                                  rows |-> reindex(reindex(renamed, desired_order),
                                                   desired_order)]]

(***************************************************************************)
(* generate_exec_summary                                                   *)
(***************************************************************************)
\* the combined totals rounded again, to one decimal
generate_exec_summary_rerounded(evk_pivot, irc_pivot, uv_pivot) ==
    [columns |-> <<"index", "Residential (All Units)">>,
     rows |-> [i \in 1..Len(desired_order) |->
                 LET t == Add(Add(evk_pivot.rows[i].Cost, irc_pivot.rows[i].Cost),
                              uv_pivot.rows[i].Cost)
                 IN  [name |-> desired_order[i],
                      total |-> IF IsNull(t) THEN NaN
                                ELSE Num(10 * RoundHalfEven(t.val, 10))]]]

\* lines 43-48: the Cost columns (iloc[:, 1]) added position by position, the
\* index set to the four names, then reset_index()
generate_exec_summary(evk_pivot, irc_pivot, uv_pivot) ==
    [columns |-> <<"index", "Residential (All Units)">>,
     rows |-> [i \in 1..Len(desired_order) |->
                 [name |-> desired_order[i],
                  total |-> Add(Add(evk_pivot.rows[i].Cost, irc_pivot.rows[i].Cost),
                                uv_pivot.rows[i].Cost)]]]

(***************************************************************************)
(* generate_report: the sheet                                              *)
(***************************************************************************)
Halls == <<"EVK", "IRC", "UV">>

NoSheet == [table |-> {}, charts |-> {}, colinfo |-> {}]

Cell(row, col, value, format) ==
    [row |-> row, col |-> col, value |-> value, format |-> format]

\* xlsxwriter's write_number raises TypeError for NaN and for infinity (the
\* workbook of line 64 is created without nan_inf_to_errors)
Unwritable(w) == w.value.kind \in {"nan", "inf"}

\* the writes of a sequence that happen: those before the first that raises
RECURSIVE Written(_)
Written(ws) ==
    IF ws = <<>> \/ Unwritable(Head(ws)) THEN <<>>
    ELSE <<Head(ws)>> \o Written(Tail(ws))

Raises(ws) == \E i \in 1..Len(ws) : Unwritable(ws[i])

\* worksheet.write(row, col, value, format): the cell's last write stays
RECURSIVE WriteAll(_, _)
WriteAll(table, ws) ==
    IF ws = <<>> THEN table
    ELSE WriteAll({c \in table : ~(c.row = Head(ws).row /\ c.col = Head(ws).col)}
                    \cup {Head(ws)}, Tail(ws))

RECURSIVE Flatten(_)
Flatten(ss) == IF ss = <<>> THEN <<>> ELSE Head(ss) \o Flatten(Tail(ss))

\* lines 68-75
ExecutiveSummaryWrites(summary) ==
    << Cell(0, 0, Str("Executive Summary"), "bold14"),
       Cell(1, 0, Str("Residential (All Units)"), "header"),
       Cell(1, 1, Str("Total"), "header") >>
    \o Flatten([i \in 1..Len(summary.rows) |->
                  << Cell(i + 1, 0, Str(summary.rows[i].name[1]), "plain"),
                     Cell(i + 1, 1, summary.rows[i].total, "money") >>])

\* lines 78-92: evk_pivot.loc[3, "Cost"] is the Cost of the fourth row
OverProductionSummaryWrites(pv) ==
    << Cell(7, 0, Str("Over Production Summary"), "bold14"),
       Cell(8, 0, Str("Hall"), "header"),
       Cell(8, 1, Str("Total Cost"), "header") >>
    \o Flatten([i \in 1..Len(Halls) |->
                  << Cell(i + 8, 0, Str(Halls[i]), "plain"),
                     Cell(i + 8, 1, pv[Halls[i]].rows[4].Cost, "money") >>])

\* lines 115-126: write_table(dataframe, label, start_row)
write_table(dataframe, label, start_row) ==
    << Cell(start_row, 0, Str(label), "bold14") >>
    \o [j \in 1..Len(dataframe.columns) |->
          Cell(start_row + 1, j - 1, Str(dataframe.columns[j]), "columns")]
    \o Flatten([i \in 1..Len(dataframe.rows) |->
                  << Cell(start_row + 1 + i, 0, Str(dataframe.rows[i].name[1]), "plain"),
                     Cell(start_row + 1 + i, 1, dataframe.rows[i].Cost, "money"),
                     Cell(start_row + 1 + i, 2, dataframe.rows[i].Percentage, "percent") >>])

Stamp(ws, section) == {<<ws[i].row, ws[i].col, section>> : i \in 1..Len(ws)}

(***************************************************************************)
(* Inputs                                                                  *)
(***************************************************************************)
InputColumns == {"srvcrsname", "served_prtncount", "costprice"}

Rec(lbl, qty, price) ==
    [srvcrsname |-> lbl, served_prtncount |-> qty, costprice |-> price]

Frame(rows) == [columns |-> InputColumns, rows |-> rows]

SeqsUpTo(S, n) == UNION {[1..k -> S] : k \in 0..n}

InputLabels ==
    {NA, Marked("Reused"), Marked("Thrown"), Marked("Waste"), Marked("Donated"),
     Marked("Spoilage"), <<"Reused">>}

Quantities == -1..MaxQty

\* half a cent, and a dollar and half a cent
CostPrices == {5, 1005}

Records == {Rec(l, q, c) : l \in InputLabels, q \in Quantities, c \in CostPrices}

Tables == {Frame(rows) : rows \in SeqsUpTo(Records, MaxRows)}

\* one "**Spoilage" record (10 at 2.00) and one unmarked "Reused" record (5 at 3.00)
ScenarioTable ==
    Frame(<< Rec(Marked("Spoilage"), 10, 2000), Rec(<<"Reused">>, 5, 3000) >>)

ThrownAndWasteTable ==
    Frame(<< Rec(Marked("Thrown"), 1, 1005), Rec(Marked("Waste"), 2, 1005) >>)

CompleteTable ==
    Frame(<< Rec(Marked("Reused"), 1, 1005), Rec(Marked("Thrown"), 2, 1005),
             Rec(Marked("Donated"), 1, 5) >>)

OtherCompleteTable ==
    Frame(<< Rec(Marked("Donated"), 3, 1005), Rec(Marked("Waste"), 1, 5),
             Rec(NA, 1, 1005), Rec(Marked("Reused"), 1, 5),
             Rec(Marked("Spoilage"), 1, 5) >>)

\* every canonical category present, every quantity 0
ZeroCompleteTable ==
    Frame(<< Rec(Marked("Reused"), 0, 1005), Rec(Marked("Waste"), 0, 5),
             Rec(Marked("Donated"), 0, 5) >>)

ReportRecords ==
    { Rec(Marked("Reused"), 1, 5), Rec(Marked("Reused"), 1, 1005),
      Rec(Marked("Donated"), 1, 5), Rec(NA, 1, 5) }

ReportTables ==
    {Frame(rows) : rows \in SeqsUpTo(ReportRecords, MaxReportRows)}
    \cup {ScenarioTable, ThrownAndWasteTable, CompleteTable, OtherCompleteTable,
          ZeroCompleteTable}

Facilities == {"EVK", "IRC", "UV"}

(***************************************************************************)
(* The state machine                                                       *)
(***************************************************************************)
InitWith(tables) ==
    /\ pc = "idle"
    /\ uploaded = tables
    /\ datasets = tables
    /\ pivots = [f \in Facilities |-> NoPivot]
    /\ executive_summary = NoPivot
    /\ worksheet = NoSheet
    /\ writers = {}
    /\ current_row = 0
    /\ error = "none"

\* app.py lines 63-71: the three uploaded tables, kept in the session
Init == \E tables \in [Facilities -> ReportTables] : InitWith(tables)

\* app.py line 138: the "Generate Report" button
ClickGenerateReport ==
    /\ pc = "idle"
    /\ pc' = "EVK"
    /\ UNCHANGED <<uploaded, datasets, pivots, executive_summary, worksheet, writers,
                   current_row, error>>

NextCall(f) == IF f = "EVK" THEN "IRC" ELSE IF f = "IRC" THEN "UV" ELSE "summary"

\* lines 55-57: create_report_pivot_table(df, label) on the caller's table
CreatePivot(f) ==
    /\ pc = f
    /\ LET r == create_report_pivot_table(datasets[f], f)
       IN  /\ datasets' = [datasets EXCEPT ![f] = r.df]
           /\ pivots' = [pivots EXCEPT ![f] = r.pivot]
           /\ error' = r.error
           /\ pc' = IF r.error = "none" THEN NextCall(f) ELSE "raised"
    /\ UNCHANGED <<uploaded, executive_summary, worksheet, writers, current_row>>

\* line 58
GenerateExecSummary ==
    /\ pc = "summary"
    /\ executive_summary' =
           generate_exec_summary(pivots["EVK"], pivots["IRC"], pivots["UV"])
    /\ pc' = "write_summary"
    /\ UNCHANGED <<uploaded, datasets, pivots, worksheet, writers, current_row, error>>

\* a section's writes reach the sheet up to the first that raises
WriteSection(ws, section, next) ==
    /\ worksheet' = [worksheet EXCEPT !.table = WriteAll(@, Written(ws))]
    /\ writers' = writers \cup Stamp(Written(ws), section)
    /\ error' = IF Raises(ws) THEN "TypeError" ELSE "none"
    /\ pc' = IF Raises(ws) THEN "raised" ELSE next

\* lines 68-75
WriteExecutiveSummary ==
    /\ pc = "write_summary"
    /\ WriteSection(ExecutiveSummaryWrites(executive_summary), "Executive Summary",
                    "write_halls")
    /\ UNCHANGED <<uploaded, datasets, pivots, executive_summary, current_row>>

\* lines 78-112: the cross-facility block and its chart at G6; line 128
WriteOverProductionSummary ==
    /\ pc = "write_halls"
    /\ worksheet' =
         [worksheet EXCEPT
            !.table = WriteAll(@, OverProductionSummaryWrites(pivots)),
            !.charts = @ \cup {[type |-> "pie", row |-> 5, col |-> 6,
                                first_row |-> 9, last_row |-> 11]}]
    /\ writers' = writers
                    \cup Stamp(OverProductionSummaryWrites(pivots), "Over Production Summary")
    /\ current_row' = 14
    /\ pc' = "table_EVK"
    /\ UNCHANGED <<uploaded, datasets, pivots, executive_summary, error>>

NextTable(f) ==
    IF f = "EVK" THEN "table_IRC" ELSE IF f = "IRC" THEN "table_UV" ELSE "close"

TablePc(f) == IF f = "EVK" THEN "table_EVK" ELSE IF f = "IRC" THEN "table_IRC" ELSE "table_UV"

\* lines 129-133: write_table(pivot, label, current_row), then
\* current_row += len(pivot) + 2 (not after the last table)
WriteTable(f) ==
    /\ pc = TablePc(f)
    /\ WriteSection(write_table(pivots[f], f, current_row), f, NextTable(f))
    /\ current_row' =
         IF Raises(write_table(pivots[f], f, current_row)) \/ f = "UV"
         THEN current_row
         ELSE current_row + Len(pivots[f].rows) + 2
    /\ UNCHANGED <<uploaded, datasets, pivots, executive_summary>>

\* lines 136-144: dim_colmax + 1 columns set to width 20, the workbook closed
CloseWorkbook ==
    /\ pc = "close"
    /\ LET dim_colmax == CHOOSE m \in {c.col : c \in worksheet.table} :
                            \A c \in worksheet.table : c.col <= m
       IN  worksheet' = [worksheet EXCEPT !.colinfo = {<<col, 20>> : col \in 0..dim_colmax}]
    /\ pc' = "done"
    /\ UNCHANGED <<uploaded, datasets, pivots, executive_summary, writers, current_row,
                   error>>

Next ==
    \/ ClickGenerateReport
    \/ CreatePivot("EVK")
    \/ CreatePivot("IRC")
    \/ CreatePivot("UV")
    \/ GenerateExecSummary
    \/ WriteExecutiveSummary
    \/ WriteOverProductionSummary
    \/ WriteTable("EVK")
    \/ WriteTable("IRC")
    \/ WriteTable("UV")
    \/ CloseWorkbook

Spec == Init /\ [][Next]_vars

\* create_report_pivot_table alone, on one table of up to MaxRows records
EmptyTable == Frame(<<>>)

InitPivot ==
    \E df \in Tables :
        InitWith([f \in Facilities |-> IF f = "EVK" THEN df ELSE EmptyTable])

\* the handler up to the return of its first call
NextPivot ==
    \/ ClickGenerateReport
    \/ CreatePivot("EVK")

SpecPivot == InitPivot /\ [][NextPivot]_vars

(***************************************************************************)
(* Vocabulary of the properties                                            *)
(***************************************************************************)
\* the call for facility f has returned its summary
Returned(f) == pivots[f] # NoPivot

\* the call for facility f has raised
RaisedIn(f) ==
    /\ error = "ValueError"
    /\ pivots[f] = NoPivot
    /\ \A i, j \in 1..Len(Halls) : (Halls[j] = f /\ i < j) => pivots[Halls[i]] # NoPivot

\* the call for facility f has been made
Called(f) == Returned(f) \/ RaisedIn(f)

Summarised == executive_summary # NoPivot

\* quantity x unit cost over the '**'-prefixed records of a table, in mills
RECURSIVE MarkedCost(_)
MarkedCost(rows) ==
    IF rows = <<>> THEN 0
    ELSE (IF Head(rows).srvcrsname # NA /\ Len(Head(rows).srvcrsname) >= 2
             /\ Head(rows).srvcrsname[1] = "*" /\ Head(rows).srvcrsname[2] = "*"
          THEN Head(rows).served_prtncount * Head(rows).costprice ELSE 0)
         + MarkedCost(Tail(rows))

\* the over-production total of a table: the rounded sum, in cents
OverProductionCents(df) == Round2(MarkedCost(df.rows))

HasMarkedRecord(df) ==
    \E i \in 1..Len(df.rows) :
        /\ df.rows[i].srvcrsname # NA
        /\ Len(df.rows[i].srvcrsname) >= 2
        /\ df.rows[i].srvcrsname[1] = "*"
        /\ df.rows[i].srvcrsname[2] = "*"

HasRecordLabelled(df, lbl) == \E i \in 1..Len(df.rows) : df.rows[i].srvcrsname = lbl

\* a canonical category occurs among the over-production records of a table
CategoryPresent(df, name) ==
    \/ HasRecordLabelled(df, <<"*", "*", name>>)
    \/ name = "Waste" /\ HasRecordLabelled(df, <<"*", "*", "Thrown">>)

\* quantities and unit costs as the data model has them
NonNegative(df) ==
    \A i \in 1..Len(df.rows) :
        df.rows[i].served_prtncount >= 0 /\ df.rows[i].costprice >= 0

FourRowsInOrder(p) ==
    /\ Len(p.rows) = 4
    /\ p.rows[1].name = <<"Reused">>
    /\ p.rows[2].name = <<"Waste">>
    /\ p.rows[3].name = <<"Donated">>
    /\ p.rows[4].name = <<"Over Production">>

NullRow(r) == r.Cost.kind = "nan" /\ r.Percentage.kind = "nan"

Row(name, cost, percentage) == [name |-> <<name>>, Cost |-> cost, Percentage |-> percentage]

(***************************************************************************)
(* C1 (as claimed; violated by the code).  For every facility input the    *)
(* call returns a summary of exactly 4 rows named Reused, Waste, Donated,  *)
(* Over Production in this order, and a canonical category absent from    *)
(* the source is a row with null cost and null percentage.                 *)
(***************************************************************************)
C1_AlwaysFourRowsInOrder ==
    \A f \in Facilities :
        Called(f) =>
            /\ Returned(f)
            /\ FourRowsInOrder(pivots[f])
            /\ \A i \in 1..3 :
                   ~CategoryPresent(uploaded[f], pivots[f].rows[i].name[1])
                       => NullRow(pivots[f].rows[i])

(***************************************************************************)
(* C2.  In a returned summary the Percentage of the Over Production row is *)
(* exactly 1.0 (100 hundredths) whenever the over-production total, the    *)
(* rounded sum of quantity x unit cost over the '**'-prefixed records, is  *)
(* greater than 0.                                                         *)
(***************************************************************************)
C2_OverProductionPercentageIsOne ==
    \A f \in Facilities :
        (Returned(f) /\ OverProductionCents(uploaded[f]) > 0)
            => pivots[f].rows[4].Percentage = Num(100)

\* a returned summary with a positive total and a category that is a proper share
C2_Witness ==
    /\ Returned("EVK")
    /\ OverProductionCents(uploaded["EVK"]) > 0
    /\ pivots["EVK"].rows[1].Percentage.kind = "num"
    /\ pivots["EVK"].rows[1].Percentage.val < 100
    /\ pivots["EVK"].rows[1].Percentage.val > 0

(***************************************************************************)
(* C3 (as claimed; violated by the code).  For one '**Spoilage' record     *)
(* (10 at 2.00) and one unmarked 'Reused' record (5 at 3.00) the summary   *)
(* is [(Reused, 15.00, 0.75), (Waste, null, null), (Donated, null, null),  *)
(* (Over Production, 20.00, 1.00)], and with three such facilities the     *)
(* executive summary's Over Production total is 60.00.                     *)
(***************************************************************************)
C3_ScenarioAsClaimed ==
    /\ \A f \in Facilities :
           (uploaded[f] = ScenarioTable /\ Called(f)) =>
               /\ Returned(f)
               /\ pivots[f].rows = << Row("Reused", Num(1500), Num(75)),
                                      Row("Waste", NaN, NaN),
                                      Row("Donated", NaN, NaN),
                                      Row("Over Production", Num(2000), Num(100)) >>
    /\ ((\A f \in Facilities : uploaded[f] = ScenarioTable) /\ Summarised)
           => executive_summary.rows[4].total = Num(6000)

(***************************************************************************)
(* C3 (amended).  For that input the summary is [(Reused, null, null),     *)
(* (Waste, null, null), (Donated, null, null), (Over Production, 20.00,    *)
(* 1.00)], and with three such facilities the executive summary's Over     *)
(* Production total is 60.00: a record whose label has no '**' marker      *)
(* contributes to no row, and the Over Production row sums only the        *)
(* '**'-prefixed records.                                                  *)
(***************************************************************************)
C3_Scenario ==
    /\ \A f \in Facilities :
           (uploaded[f] = ScenarioTable /\ Called(f)) =>
               /\ Returned(f)
               /\ pivots[f].rows = << Row("Reused", NaN, NaN),
                                      Row("Waste", NaN, NaN),
                                      Row("Donated", NaN, NaN),
                                      Row("Over Production", Num(2000), Num(100)) >>
    /\ ((\A f \in Facilities : uploaded[f] = ScenarioTable) /\ Summarised)
           => executive_summary.rows[4].total = Num(6000)

\* the three facilities hold the scenario's table and the summary is built
C3_Witness ==
    /\ \A f \in Facilities : uploaded[f] = ScenarioTable /\ Returned(f)
    /\ Summarised

(***************************************************************************)
(* C4.  The executive summary has the rows Reused, Waste, Donated, Over    *)
(* Production in this order, and its Over Production total is the exact    *)
(* sum of the three facilities' Over Production totals, each rounded once  *)
(* from its facility's records, with no rounding of the sum.               *)
(***************************************************************************)
C4_ExecutiveTotalIsExactSum ==
    Summarised =>
        /\ Len(executive_summary.rows) = 4
        /\ executive_summary.rows[1].name = <<"Reused">>
        /\ executive_summary.rows[2].name = <<"Waste">>
        /\ executive_summary.rows[3].name = <<"Donated">>
        /\ executive_summary.rows[4].name = <<"Over Production">>
        /\ executive_summary.rows[4].total.kind = "num"
        /\ executive_summary.rows[4].total.val =
               OverProductionCents(uploaded["EVK"]) + OverProductionCents(uploaded["IRC"])
                   + OverProductionCents(uploaded["UV"])
        /\ executive_summary.rows[4].total.val =
               pivots["EVK"].rows[4].Cost.val + pivots["IRC"].rows[4].Cost.val
                   + pivots["UV"].rows[4].Cost.val

\* a summary built of three different positive totals, where rounding the sum of the
\* unrounded totals would give another figure
C4_Witness ==
    /\ Summarised
    /\ pivots["EVK"].rows[4].Cost.val > 0
    /\ pivots["IRC"].rows[4].Cost.val > pivots["EVK"].rows[4].Cost.val
    /\ pivots["UV"].rows[4].Cost.val > pivots["IRC"].rows[4].Cost.val
    /\ executive_summary.rows[4].total.val #
           Round2(MarkedCost(uploaded["EVK"].rows) + MarkedCost(uploaded["IRC"].rows)
                    + MarkedCost(uploaded["UV"].rows))

\* 'Thrown' replaced by 'Waste' in a label, the marker kept
RenameThrown(lbl) ==
    IF lbl = <<"*", "*", "Thrown">> THEN <<"*", "*", "Waste">>
    ELSE IF lbl = <<"Thrown">> THEN <<"Waste">> ELSE lbl

ThrownRows(df) == {i \in 1..Len(df.rows) : RenameThrown(df.rows[i].srvcrsname)
                                              # df.rows[i].srvcrsname}

Renamed(df, S) ==
    [df EXCEPT !.rows = [i \in 1..Len(df.rows) |->
        IF i \in S THEN [df.rows[i] EXCEPT !.srvcrsname = RenameThrown(@)]
        ELSE df.rows[i]]]

(***************************************************************************)
(* C5 (as claimed; violated by the code).  'Thrown' is renamed to 'Waste'  *)
(* before aggregation: the call returns a summary, and replacing 'Thrown'  *)
(* by 'Waste' on any subset of the records gives an identical summary, so  *)
(* records of both labels are summed into the single Waste row.            *)
(***************************************************************************)
C5_ThrownRenamedBeforeAggregation ==
    \A f \in Facilities :
        Called(f) =>
            /\ Returned(f)
            /\ \A S \in SUBSET ThrownRows(uploaded[f]) :
                   LET r == create_report_pivot_table(Renamed(uploaded[f], S), f)
                   IN  r.error = "none" /\ r.pivot = pivots[f]

(***************************************************************************)
(* C6 (as claimed; violated by the code).  For an input (of non-negative   *)
(* quantities and unit costs, as the data model has them) with no          *)
(* '**'-prefixed record, or whose over-production total is 0, the call     *)
(* does not raise: it returns the 4-row summary in which every Percentage  *)
(* is null.                                                                *)
(***************************************************************************)
C6_ZeroOverProductionAllNull ==
    \A f \in Facilities :
        (/\ Called(f)
         /\ NonNegative(uploaded[f])
         /\ (~HasMarkedRecord(uploaded[f]) \/ OverProductionCents(uploaded[f]) = 0))
            => /\ Returned(f)
               /\ FourRowsInOrder(pivots[f])
               /\ \A i \in 1..4 : pivots[f].rows[i].Percentage.kind = "nan"

(***************************************************************************)
(* C7 (as claimed; violated by the code).  A call leaves the caller's      *)
(* table unchanged: the tables the caller holds are always the tables      *)
(* uploaded, rows and columns.                                             *)
(***************************************************************************)
C7_InputUnchanged ==
    \A f \in Facilities :
        /\ datasets[f].columns = uploaded[f].columns
        /\ Len(datasets[f].rows) = Len(uploaded[f].rows)

RowsOf(section) == {w[1] : w \in {x \in writers : x[3] = section}}

BlankRowBetween(a, b) == \A ra \in RowsOf(a), rb \in RowsOf(b) : rb - ra >= 2

(***************************************************************************)
(* C8 (as claimed; violated by the code).  In the finished sheet each      *)
(* detail table is separated from the next by at least one blank row, and  *)
(* no cell is written by more than one section.                            *)
(***************************************************************************)
C8_BlankRowBetweenTables ==
    pc = "done" =>
        /\ BlankRowBetween("EVK", "IRC")
        /\ BlankRowBetween("IRC", "UV")
        /\ \A x, y \in writers : (x[1] = y[1] /\ x[2] = y[2]) => x[3] = y[3]

(***************************************************************************)
(* C9.  The combined total of a category is null whenever at least one of  *)
(* the three facility summaries has a null cost for it, also when the      *)
(* others have costs; it is the sum of the three costs when none is null.  *)
(***************************************************************************)
C9_NullCostNullsTheTotal ==
    Summarised =>
        \A i \in 1..4 :
            IF \E f \in Facilities : pivots[f].rows[i].Cost.kind = "nan"
            THEN executive_summary.rows[i].total.kind = "nan"
            ELSE /\ executive_summary.rows[i].total.kind = "num"
                 /\ executive_summary.rows[i].total.val =
                        pivots["EVK"].rows[i].Cost.val + pivots["IRC"].rows[i].Cost.val
                            + pivots["UV"].rows[i].Cost.val

\* a category with a cost in two facilities and none in the third
C9_Witness ==
    /\ Summarised
    /\ \E i \in 1..3 :
           /\ pivots["EVK"].rows[i].Cost.kind = "num"
           /\ pivots["EVK"].rows[i].Cost.val > 0
           /\ pivots["IRC"].rows[i].Cost.kind = "nan"
           /\ pivots["UV"].rows[i].Cost.kind = "num"
           /\ executive_summary.rows[i].total.kind = "nan"

(***************************************************************************)
(* C10.  For an input of non-negative quantities and unit costs whose      *)
(* over-production total is greater than 0, every Percentage of the        *)
(* returned summary that is not null is a number between 0 and 1           *)
(* (0 and 100 hundredths) inclusive.                                       *)
(***************************************************************************)
C10_PercentageBetweenZeroAndOne ==
    \A f \in Facilities :
        (Returned(f) /\ NonNegative(uploaded[f]) /\ OverProductionCents(uploaded[f]) > 0)
            => \A i \in 1..4 :
                   \/ pivots[f].rows[i].Percentage.kind = "nan"
                   \/ /\ pivots[f].rows[i].Percentage.kind = "num"
                      /\ pivots[f].rows[i].Percentage.val >= 0
                      /\ pivots[f].rows[i].Percentage.val <= 100

\* a summary where a category's unrounded cost is below the unrounded total and both
\* round to the same figure: the share is exactly 1
C10_Witness ==
    /\ Returned("EVK")
    /\ OverProductionCents(uploaded["EVK"]) > 0
    /\ \E i \in 1..3 :
           /\ pivots["EVK"].rows[i].Percentage = Num(100)
           /\ \E j \in 1..3 : j # i /\ pivots["EVK"].rows[j].Cost.kind = "num"
                                /\ pivots["EVK"].rows[j].Percentage = Num(0)
                                /\ HasMarkedRecord(uploaded["EVK"])
                                /\ MarkedCost(uploaded["EVK"].rows)
                                     > 10 * pivots["EVK"].rows[i].Cost.val - 5

====
